---------------------------- MODULE Spec2Model ----------------------------
(***************************************************************************)
(* A model of the WASI syscall bridge of enarx-wasi-prototype:             *)
(*   src/src/syscalls.rs     the ABI conversion traits, the two context    *)
(*                           resolvers and the 45 generated trampolines    *)
(*   src/src/instantiate.rs  instantiate_wasi, which assembles the         *)
(*                           synthetic module and its WasiCtx              *)
(*                                                                         *)
(* Integers keep their width: a native value or a guest word is the        *)
(* little-endian sequence of its bytes, so a Rust `as` cast is a           *)
(* truncation or a sign/zero extension of that sequence.                   *)
(*                                                                         *)
(* Four specifications share the variables:                                *)
(*   SpecAbi   the conversions of AbiRet / AbiParam on bounded inputs      *)
(*   SpecCall  guest calls into the trampolines of one instance handle     *)
(*   SpecInst  runs of instantiate_wasi, one statement per step            *)
(*   SpecDups  SpecInst with guests that close pre-opened duplicates       *)
(***************************************************************************)
EXTENDS Integers, Sequences, FiniteSets, TLC

VARIABLES
    abi,        \* SpecAbi: the conversion under way
    vmctx,      \* SpecCall: what the VMContext of the calling instance holds
    call,       \* SpecCall: the last call a trampoline served
    earlier,    \* SpecCall: the slice the latest returned call resolved
    exited,     \* SpecCall: hostcalls::proc_exit has ended the process
    inst,       \* SpecInst: the locals of the running instantiate_wasi
    world       \* SpecInst: what outlives a run (global exports, handles)

vars == <<abi, vmctx, call, earlier, exited, inst, world>>

(***************************************************************************)
(* Bounds of the model.                                                    *)
(***************************************************************************)
\* The guest memory grows up to this many pages.
MaxPages == 2
\* instantiate_wasi is given at most this many pre-opened directories.
MaxDirs == 2
\* instantiate_wasi is run at most this many times.
MaxRuns == 2
\* The guests close at most this many pre-opened duplicates.
MaxCloses == 1

(***************************************************************************)
(* Native integer types and the Rust `as` cast.                            *)
(***************************************************************************)
\* cast32!(i8 i16 i32 u8 u16 u32)
cast32 == {"i8", "i16", "i32", "u8", "u16", "u32"}
\* cast64!(i64 u64)
cast64 == {"i64", "u64"}

NativeTypes == cast32 \cup cast64

\* Width of a primitive integer type in bytes.
Width(ty) ==
    CASE ty \in {"i8", "u8"}   -> 1
      [] ty \in {"i16", "u16"} -> 2
      [] ty \in {"i32", "u32"} -> 4
      [] ty \in {"i64", "u64"} -> 8

Signed(ty) == ty \in {"i8", "i16", "i32", "i64"}

\* The sign bit of a little-endian byte sequence.
Negative(bytes) == bytes[Len(bytes)] >= 128

\* `v as to`, v of type `from`: Rust's integer cast keeps the low bytes when
\* the target is not wider, and otherwise extends by the sign of a signed
\* source and by zero of an unsigned one.
CastAs(v, from, to) ==
    IF Width(to) <= Len(v)
    THEN SubSeq(v, 1, Width(to))
    ELSE LET fill == IF Signed(from) /\ Negative(v) THEN 255 ELSE 0
         IN v \o [i \in 1..(Width(to) - Len(v)) |-> fill]

\* type Abi of the impls the two macros generate.
AbiOf(ty) == IF ty \in cast32 THEN "i32" ELSE "i64"

\* A mutant of AbiRet_convert: the encoder saturates an unsigned value that
\* does not fit the signed word instead of reinterpreting its bits.
AbiRet_convert_saturating(ty, x) ==
    LET w == CastAs(x, ty, AbiOf(ty))
    IN IF ~Signed(ty) /\ Width(ty) = Width(AbiOf(ty)) /\ Negative(w)
       THEN [i \in 1..Len(w) |-> IF i = Len(w) THEN 127 ELSE 255]
       ELSE w

\* <T as AbiRet>::convert(self): self as i32 / self as i64.
AbiRet_convert(ty, x) == CastAs(x, ty, AbiOf(ty))

\* A mutant of AbiParam_convert: a word outside the range of a narrower
\* type is clamped to the type's largest value instead of being truncated.
AbiParam_convert_clamping(ty, param) ==
    LET lo == CastAs(param, AbiOf(ty), ty)
    IN IF CastAs(lo, ty, AbiOf(ty)) = param
       THEN lo
       ELSE [i \in 1..Width(ty) |->
                IF i = Width(ty) /\ Signed(ty) THEN 127 ELSE 255]

\* <T as AbiParam>::convert(param): param as T.
AbiParam_convert(ty, param) == CastAs(param, AbiOf(ty), ty)

\* A mutant of codegen_ty: an unsigned 32-bit type is given the 64-bit word
\* that holds all of its values as non-negative numbers.
codegen_ty_u32_wide(ty) == IF ty \in cast32 \ {"u32"} THEN "I32" ELSE "I64"

\* <T as AbiParam>::codegen_ty(): the literal of each macro.
codegen_ty(ty) == IF ty \in cast32 THEN "I32" ELSE "I64"

\* <T as AbiRet>::codegen_tys(); `unit` is the impl for ().
codegen_tys(ty) == IF ty = "unit" THEN <<>> ELSE <<codegen_ty(ty)>>

\* The value a little-endian byte sequence has as an unsigned number
\* (used on values of at most 16 bits).
RECURSIVE Unsigned(_)
Unsigned(bytes) ==
    IF bytes = <<>> THEN 0 ELSE bytes[1] + 256 * Unsigned(Tail(bytes))

\* The little-endian bytes of n in a type of the given width.
RECURSIVE Bytes(_, _)
Bytes(n, width) ==
    IF width = 0 THEN <<>> ELSE <<n % 256>> \o Bytes(n \div 256, width - 1)

(***************************************************************************)
(* SpecAbi: encode a native value, decode the word.                        *)
(***************************************************************************)
\* The bytes native inputs are built of: 0x00, 0x7f, 0x80, 0xff reach every
\* type's minimum (80 00..), maximum (7f ff.. / ff ff..), 0 and -1.
ByteAlphabet == {0, 127, 128, 255}

\* Every value of type ty whose bytes are of the alphabet.
ValuesOf(ty) == [1..Width(ty) -> ByteAlphabet]

\* Every 32-bit word a guest can pass whose bytes are of the alphabet: the
\* guest chooses the word, so it need not be the encoding of any value.
GuestWords == [1..4 -> ByteAlphabet]

NoAbi == [phase |-> "idle"]

InitAbi ==
    /\ \/ \E ty \in NativeTypes : \E x \in ValuesOf(ty) :
             abi = [phase |-> "input", ty |-> ty, x |-> x]
       \/ abi = [phase |-> "input", ty |-> "unit", x |-> <<>>]
       \/ \E ty \in cast32 : \E w \in GuestWords :
             abi = [phase |-> "word", ty |-> ty, word |-> w]
    /\ vmctx = [host_state |-> "None"]
    /\ call = [op |-> "none"]
    /\ earlier = <<>>
    /\ exited = FALSE
    /\ inst = [pc |-> "idle"]
    /\ world = [pointer_type |-> "I64", runs |-> 0, fds |-> {}, instances |-> <<>>]

\* shim's last line: <$ret as AbiRet>::convert(r).
Encode ==
    /\ abi.phase = "input"
    /\ abi.ty \in NativeTypes
    /\ abi' = [phase |-> "encoded", ty |-> abi.ty, x |-> abi.x,
               word |-> AbiRet_convert(abi.ty, abi.x)]
    /\ UNCHANGED <<vmctx, call, earlier, exited, inst, world>>

\* shim's argument list: <$ty as AbiParam>::convert($arg).
Decode ==
    /\ abi.phase = "encoded"
    /\ abi' = [phase |-> "decoded", ty |-> abi.ty, x |-> abi.x,
               word |-> abi.word,
               back |-> AbiParam_convert(abi.ty, abi.word)]
    /\ UNCHANGED <<vmctx, call, earlier, exited, inst, world>>

\* params() / results() of a trampoline ask the type of a value, never the
\* value, for its guest word types: codegen_ty() for a parameter (there is
\* no AbiParam for ()), codegen_tys() for a return.
Codegen ==
    /\ abi.phase = "input"
    /\ abi' = [phase |-> "codegen", ty |-> abi.ty, x |-> abi.x,
               param |-> IF abi.ty = "unit" THEN <<>>
                         ELSE <<codegen_ty(abi.ty)>>,
               results |-> codegen_tys(abi.ty)]
    /\ UNCHANGED <<vmctx, call, earlier, exited, inst, world>>

\* shim's argument list on a word of the guest's choosing:
\* <$ty as AbiParam>::convert($arg).
DecodeWord ==
    /\ abi.phase = "word"
    /\ abi' = [phase |-> "narrowed", ty |-> abi.ty, word |-> abi.word,
               native |-> AbiParam_convert(abi.ty, abi.word)]
    /\ UNCHANGED <<vmctx, call, earlier, exited, inst, world>>

\* The decoded value handed back to the guest: <$ret as AbiRet>::convert(r).
EncodeBack ==
    /\ abi.phase = "narrowed"
    /\ abi' = [phase |-> "widened", ty |-> abi.ty, word |-> abi.word,
               native |-> abi.native,
               again |-> AbiRet_convert(abi.ty, abi.native)]
    /\ UNCHANGED <<vmctx, call, earlier, exited, inst, world>>

NextAbi == Encode \/ Decode \/ Codegen \/ DecodeWord \/ EncodeBack

SpecAbi == InitAbi /\ [][NextAbi]_vars

\* C1: for every supported native type and every value x of it, the minimum
\* and the maximum included, decoding the guest word that encodes x gives
\* back x, and the word has the width of the type's guest word.
C1_RoundTrip ==
    abi.phase = "decoded" =>
        /\ abi.back = abi.x
        /\ Len(abi.word) = Width(AbiOf(abi.ty))

\* Witness of C1: u32::MAX has gone through the signed 32-bit word and come
\* back (the word is -1 as an i32).
C1_Witness ==
    /\ abi.phase = "decoded"
    /\ abi.ty = "u32"
    /\ abi.x = <<255, 255, 255, 255>>
    /\ abi.back = abi.x

\* C11: the guest word type generated for a native type is a total function
\* of the type alone: i8, i16, i32, u8, u16, u32 give one 32-bit word, i64
\* and u64 give one 64-bit word, a unit return gives the empty list, and a
\* parameter gets the word type the same type has as a return; no value of
\* the type changes the answer.
C11_CodegenByType ==
    abi.phase = "codegen" =>
        /\ abi.ty \in {"i8", "i16", "i32", "u8", "u16", "u32"}
              => abi.results = <<"I32">>
        /\ abi.ty \in {"i64", "u64"} => abi.results = <<"I64">>
        /\ abi.ty = "unit" => abi.results = <<>>
        /\ abi.param = abi.results
        /\ Len(abi.results) <= 1

\* Witness of C11: the word type of u32 was asked for while the value at
\* hand was u32::MAX, which no signed 32-bit number equals.
C11_Witness ==
    /\ abi.phase = "codegen"
    /\ abi.ty = "u32"
    /\ abi.x = <<255, 255, 255, 255>>
    /\ abi.results = <<"I32">>

\* The guest word w is the encoding of some value of ty: its high bytes
\* repeat the sign of its low bytes (signed ty) or are zero (unsigned ty).
InRange(ty, w) ==
    LET fill == IF Signed(ty) /\ w[Width(ty)] >= 128 THEN 255 ELSE 0
    IN \A i \in (Width(ty) + 1)..Len(w) : w[i] = fill

\* C17: decoding a 32-bit guest word into i8, u8, i16 or u16 always gives a
\* value, which is the low 8 (or 16) bits of the word and nothing else, so
\* words equal modulo 2^8 (or 2^16) decode alike; encoding the decoded
\* value gives the word back exactly when the word was in the range of the
\* native type.
C17_NarrowingKeepsLowBits ==
    /\ abi.phase \in {"narrowed", "widened"} =>
          /\ Len(abi.native) = Width(abi.ty)
          /\ \A i \in 1..Width(abi.ty) : abi.native[i] = abi.word[i]
    /\ abi.phase = "widened" =>
          ((abi.again = abi.word) <=> InRange(abi.ty, abi.word))

\* Witness of C17: the word 0x0000ff00 decoded into u8 is 0, and 0 encodes
\* as the word 0, not as the word the guest passed.
C17_Witness ==
    /\ abi.phase = "widened"
    /\ abi.ty = "u8"
    /\ abi.word = <<0, 255, 0, 0>>
    /\ abi.native = <<0>>
    /\ abi.again = <<0, 0, 0, 0>>

(***************************************************************************)
(* The syscall table: what the syscalls! invocation declares.              *)
(***************************************************************************)
\* The integer type behind each wasm32:: alias the table uses
\* (wasi_common::wasm32, imported by syscalls.rs).
wasm32(alias) ==
    CASE alias \in {"__wasi_advice_t", "__wasi_sdflags_t", "__wasi_signal_t",
                    "__wasi_whence_t"} -> "u8"
      [] alias \in {"__wasi_errno_t", "__wasi_fdflags_t", "__wasi_fstflags_t",
                    "__wasi_oflags_t", "__wasi_riflags_t",
                    "__wasi_siflags_t"} -> "u16"
      [] alias \in {"uintptr_t", "size_t", "__wasi_clockid_t", "__wasi_fd_t",
                    "__wasi_lookupflags_t"} -> "u32"
      [] alias \in {"__wasi_dircookie_t", "__wasi_filesize_t",
                    "__wasi_rights_t", "__wasi_timestamp_t"} -> "u64"
      [] alias = "__wasi_filedelta_t" -> "i64"
      [] OTHER -> alias

\* wasm32::__WASI_EINVAL, the signal of both resolvers.
WASI_EINVAL == 28
\* wasm32::__WASI_ENOSYS, the signal of every operation that is not wired.
WASI_ENOSYS == 52

\* One record per fn of syscalls! { .. }, in the order of the file: the
\* parameters after the VMContext (name, type), the return type, the
\* resolvers the body runs through ok_or_errno! in its order, and the tail
\* expression: the hostcalls:: call with its arguments, or __WASI_ENOSYS.
SyscallTable == <<
     [name |-> "args_get",
      params |-> <<<<"argv", "uintptr_t">>, <<"argv_buf", "uintptr_t">>>>,
      ret |-> "__wasi_errno_t", resolves |-> <<"wasi_ctx", "memory">>,
      tail |-> "hostcall", call |-> <<"wasi_ctx", "memory", "argv", "argv_buf">>],   \* lines 164-177
     [name |-> "args_sizes_get",
      params |-> <<<<"argc", "uintptr_t">>, <<"argv_buf_size", "uintptr_t">>>>,
      ret |-> "__wasi_errno_t", resolves |-> <<"wasi_ctx", "memory">>,
      tail |-> "hostcall", call |-> <<"wasi_ctx", "memory", "argc", "argv_buf_size">>],   \* lines 179-192
     [name |-> "clock_res_get",
      params |-> <<<<"clock_id", "__wasi_clockid_t">>, <<"resolution", "uintptr_t">>>>,
      ret |-> "__wasi_errno_t", resolves |-> <<"memory">>,
      tail |-> "hostcall", call |-> <<"memory", "clock_id", "resolution">>],   \* lines 194-206
     [name |-> "clock_time_get",
      params |-> <<<<"clock_id", "__wasi_clockid_t">>, <<"precision", "__wasi_timestamp_t">>, <<"time", "uintptr_t">>>>,
      ret |-> "__wasi_errno_t", resolves |-> <<"memory">>,
      tail |-> "hostcall", call |-> <<"memory", "clock_id", "precision", "time">>],   \* lines 208-222
     [name |-> "environ_get",
      params |-> <<<<"environ", "uintptr_t">>, <<"environ_buf", "uintptr_t">>>>,
      ret |-> "__wasi_errno_t", resolves |-> <<"wasi_ctx", "memory">>,
      tail |-> "hostcall", call |-> <<"wasi_ctx", "memory", "environ", "environ_buf">>],   \* lines 224-237
     [name |-> "environ_sizes_get",
      params |-> <<<<"environ_count", "uintptr_t">>, <<"environ_buf_size", "uintptr_t">>>>,
      ret |-> "__wasi_errno_t", resolves |-> <<"wasi_ctx", "memory">>,
      tail |-> "hostcall", call |-> <<"wasi_ctx", "memory", "environ_count", "environ_buf_size">>],   \* lines 239-252
     [name |-> "fd_prestat_get",
      params |-> <<<<"fd", "__wasi_fd_t">>, <<"buf", "uintptr_t">>>>,
      ret |-> "__wasi_errno_t", resolves |-> <<>>,
      tail |-> "ENOSYS", call |-> <<>>],   \* lines 254-261
     [name |-> "fd_prestat_dir_name",
      params |-> <<<<"fd", "__wasi_fd_t">>, <<"path", "uintptr_t">>, <<"path_len", "size_t">>>>,
      ret |-> "__wasi_errno_t", resolves |-> <<>>,
      tail |-> "ENOSYS", call |-> <<>>],   \* lines 263-271
     [name |-> "fd_close",
      params |-> <<<<"fd", "__wasi_fd_t">>>>,
      ret |-> "__wasi_errno_t", resolves |-> <<"wasi_ctx">>,
      tail |-> "hostcall", call |-> <<"wasi_ctx", "fd">>],   \* lines 273-280
     [name |-> "fd_datasync",
      params |-> <<<<"fd", "__wasi_fd_t">>>>,
      ret |-> "__wasi_errno_t", resolves |-> <<>>,
      tail |-> "ENOSYS", call |-> <<>>],   \* lines 282-288
     [name |-> "fd_pread",
      params |-> <<<<"fd", "__wasi_fd_t">>, <<"iovs", "uintptr_t">>, <<"iovs_len", "size_t">>, <<"offset", "__wasi_filesize_t">>, <<"nread", "uintptr_t">>>>,
      ret |-> "__wasi_errno_t", resolves |-> <<>>,
      tail |-> "ENOSYS", call |-> <<>>],   \* lines 290-307
     [name |-> "fd_pwrite",
      params |-> <<<<"fd", "__wasi_fd_t">>, <<"iovs", "uintptr_t">>, <<"iovs_len", "size_t">>, <<"offset", "__wasi_filesize_t">>, <<"nwritten", "uintptr_t">>>>,
      ret |-> "__wasi_errno_t", resolves |-> <<>>,
      tail |-> "ENOSYS", call |-> <<>>],   \* lines 309-326
     [name |-> "fd_read",
      params |-> <<<<"fd", "__wasi_fd_t">>, <<"iovs", "uintptr_t">>, <<"iovs_len", "size_t">>, <<"nread", "uintptr_t">>>>,
      ret |-> "__wasi_errno_t", resolves |-> <<"wasi_ctx", "memory">>,
      tail |-> "hostcall", call |-> <<"wasi_ctx", "memory", "fd", "iovs", "iovs_len", "nread">>],   \* lines 328-345
     [name |-> "fd_renumber",
      params |-> <<<<"from", "__wasi_fd_t">>, <<"to", "__wasi_fd_t">>>>,
      ret |-> "__wasi_errno_t", resolves |-> <<"wasi_ctx">>,
      tail |-> "hostcall", call |-> <<"wasi_ctx", "from", "to">>],   \* lines 347-355
     [name |-> "fd_seek",
      params |-> <<<<"fd", "__wasi_fd_t">>, <<"offset", "__wasi_filedelta_t">>, <<"whence", "__wasi_whence_t">>, <<"newoffset", "uintptr_t">>>>,
      ret |-> "__wasi_errno_t", resolves |-> <<>>,
      tail |-> "ENOSYS", call |-> <<>>],   \* lines 357-372
     [name |-> "fd_tell",
      params |-> <<<<"fd", "__wasi_fd_t">>, <<"newoffset", "uintptr_t">>>>,
      ret |-> "__wasi_errno_t", resolves |-> <<>>,
      tail |-> "ENOSYS", call |-> <<>>],   \* lines 374-381
     [name |-> "fd_fdstat_get",
      params |-> <<<<"fd", "__wasi_fd_t">>, <<"buf", "uintptr_t">>>>,
      ret |-> "__wasi_errno_t", resolves |-> <<>>,
      tail |-> "ENOSYS", call |-> <<>>],   \* lines 383-390
     [name |-> "fd_fdstat_set_flags",
      params |-> <<<<"fd", "__wasi_fd_t">>, <<"flags", "__wasi_fdflags_t">>>>,
      ret |-> "__wasi_errno_t", resolves |-> <<>>,
      tail |-> "ENOSYS", call |-> <<>>],   \* lines 392-403
     [name |-> "fd_fdstat_set_rights",
      params |-> <<<<"fd", "__wasi_fd_t">>, <<"fs_rights_base", "__wasi_rights_t">>, <<"fs_rights_inheriting", "__wasi_rights_t">>>>,
      ret |-> "__wasi_errno_t", resolves |-> <<>>,
      tail |-> "ENOSYS", call |-> <<>>],   \* lines 405-418
     [name |-> "fd_sync",
      params |-> <<<<"fd", "__wasi_fd_t">>>>,
      ret |-> "__wasi_errno_t", resolves |-> <<"wasi_ctx">>,
      tail |-> "hostcall", call |-> <<"wasi_ctx", "fd">>],   \* lines 420-427
     [name |-> "fd_write",
      params |-> <<<<"fd", "__wasi_fd_t">>, <<"iovs", "uintptr_t">>, <<"iovs_len", "size_t">>, <<"nwritten", "uintptr_t">>>>,
      ret |-> "__wasi_errno_t", resolves |-> <<"wasi_ctx", "memory">>,
      tail |-> "hostcall", call |-> <<"wasi_ctx", "memory", "fd", "iovs", "iovs_len", "nwritten">>],   \* lines 429-454
     [name |-> "fd_advise",
      params |-> <<<<"fd", "__wasi_fd_t">>, <<"offset", "__wasi_filesize_t">>, <<"len", "__wasi_filesize_t">>, <<"advice", "__wasi_advice_t">>>>,
      ret |-> "__wasi_errno_t", resolves |-> <<>>,
      tail |-> "ENOSYS", call |-> <<>>],   \* lines 456-471
     [name |-> "fd_allocate",
      params |-> <<<<"fd", "__wasi_fd_t">>, <<"offset", "__wasi_filesize_t">>, <<"len", "__wasi_filesize_t">>>>,
      ret |-> "__wasi_errno_t", resolves |-> <<"wasi_ctx">>,
      tail |-> "hostcall", call |-> <<"wasi_ctx", "fd", "offset", "len">>],   \* lines 473-482
     [name |-> "path_create_directory",
      params |-> <<<<"fd", "__wasi_fd_t">>, <<"path", "uintptr_t">>, <<"path_len", "size_t">>>>,
      ret |-> "__wasi_errno_t", resolves |-> <<>>,
      tail |-> "ENOSYS", call |-> <<>>],   \* lines 484-497
     [name |-> "path_link",
      params |-> <<<<"fd0", "__wasi_fd_t">>, <<"flags0", "__wasi_lookupflags_t">>, <<"path0", "uintptr_t">>, <<"path_len0", "size_t">>, <<"fd1", "__wasi_fd_t">>, <<"path1", "uintptr_t">>, <<"path_len1", "size_t">>>>,
      ret |-> "__wasi_errno_t", resolves |-> <<>>,
      tail |-> "ENOSYS", call |-> <<>>],   \* lines 499-520
     [name |-> "path_open",
      params |-> <<<<"dirfd", "__wasi_fd_t">>, <<"dirflags", "__wasi_lookupflags_t">>, <<"path", "uintptr_t">>, <<"path_len", "size_t">>, <<"oflags", "__wasi_oflags_t">>, <<"fs_rights_base", "__wasi_rights_t">>, <<"fs_rights_inheriting", "__wasi_rights_t">>, <<"fs_flags", "__wasi_fdflags_t">>, <<"fd", "uintptr_t">>>>,
      ret |-> "__wasi_errno_t", resolves |-> <<>>,
      tail |-> "ENOSYS", call |-> <<>>],   \* lines 524-549
     [name |-> "fd_readdir",
      params |-> <<<<"fd", "__wasi_fd_t">>, <<"buf", "uintptr_t">>, <<"buf_len", "size_t">>, <<"cookie", "__wasi_dircookie_t">>, <<"buf_used", "uintptr_t">>>>,
      ret |-> "__wasi_errno_t", resolves |-> <<>>,
      tail |-> "ENOSYS", call |-> <<>>],   \* lines 551-568
     [name |-> "path_readlink",
      params |-> <<<<"fd", "__wasi_fd_t">>, <<"path", "uintptr_t">>, <<"path_len", "size_t">>, <<"buf", "uintptr_t">>, <<"buf_len", "size_t">>, <<"buf_used", "uintptr_t">>>>,
      ret |-> "__wasi_errno_t", resolves |-> <<>>,
      tail |-> "ENOSYS", call |-> <<>>],   \* lines 570-589
     [name |-> "path_rename",
      params |-> <<<<"fd0", "__wasi_fd_t">>, <<"path0", "uintptr_t">>, <<"path_len0", "size_t">>, <<"fd1", "__wasi_fd_t">>, <<"path1", "uintptr_t">>, <<"path_len1", "size_t">>>>,
      ret |-> "__wasi_errno_t", resolves |-> <<>>,
      tail |-> "ENOSYS", call |-> <<>>],   \* lines 591-610
     [name |-> "fd_filestat_get",
      params |-> <<<<"fd", "__wasi_fd_t">>, <<"buf", "uintptr_t">>>>,
      ret |-> "__wasi_errno_t", resolves |-> <<>>,
      tail |-> "ENOSYS", call |-> <<>>],   \* lines 612-619
     [name |-> "fd_filestat_set_times",
      params |-> <<<<"fd", "__wasi_fd_t">>, <<"st_atim", "__wasi_timestamp_t">>, <<"st_mtim", "__wasi_timestamp_t">>, <<"fstflags", "__wasi_fstflags_t">>>>,
      ret |-> "__wasi_errno_t", resolves |-> <<>>,
      tail |-> "ENOSYS", call |-> <<>>],   \* lines 621-635
     [name |-> "fd_filestat_set_size",
      params |-> <<<<"fd", "__wasi_fd_t">>, <<"size", "__wasi_filesize_t">>>>,
      ret |-> "__wasi_errno_t", resolves |-> <<>>,
      tail |-> "ENOSYS", call |-> <<>>],   \* lines 637-648
     [name |-> "path_filestat_get",
      params |-> <<<<"fd", "__wasi_fd_t">>, <<"flags", "__wasi_lookupflags_t">>, <<"path", "uintptr_t">>, <<"path_len", "size_t">>, <<"buf", "uintptr_t">>>>,
      ret |-> "__wasi_errno_t", resolves |-> <<>>,
      tail |-> "ENOSYS", call |-> <<>>],   \* lines 650-667
     [name |-> "path_filestat_set_times",
      params |-> <<<<"fd", "__wasi_fd_t">>, <<"flags", "__wasi_lookupflags_t">>, <<"path", "uintptr_t">>, <<"path_len", "size_t">>, <<"st_atim", "__wasi_timestamp_t">>, <<"st_mtim", "__wasi_timestamp_t">>, <<"fstflags", "__wasi_fstflags_t">>>>,
      ret |-> "__wasi_errno_t", resolves |-> <<>>,
      tail |-> "ENOSYS", call |-> <<>>],   \* lines 669-689
     [name |-> "path_symlink",
      params |-> <<<<"path0", "uintptr_t">>, <<"path_len0", "size_t">>, <<"fd", "__wasi_fd_t">>, <<"path1", "uintptr_t">>, <<"path_len1", "size_t">>>>,
      ret |-> "__wasi_errno_t", resolves |-> <<>>,
      tail |-> "ENOSYS", call |-> <<>>],   \* lines 691-708
     [name |-> "path_unlink_file",
      params |-> <<<<"fd", "__wasi_fd_t">>, <<"path", "uintptr_t">>, <<"path_len", "size_t">>>>,
      ret |-> "__wasi_errno_t", resolves |-> <<>>,
      tail |-> "ENOSYS", call |-> <<>>],   \* lines 710-723
     [name |-> "path_remove_directory",
      params |-> <<<<"fd", "__wasi_fd_t">>, <<"path", "uintptr_t">>, <<"path_len", "size_t">>>>,
      ret |-> "__wasi_errno_t", resolves |-> <<>>,
      tail |-> "ENOSYS", call |-> <<>>],   \* lines 725-738
     [name |-> "poll_oneoff",
      params |-> <<<<"in_", "uintptr_t">>, <<"out", "uintptr_t">>, <<"nsubscriptions", "size_t">>, <<"nevents", "uintptr_t">>>>,
      ret |-> "__wasi_errno_t", resolves |-> <<"memory">>,
      tail |-> "hostcall", call |-> <<"memory", "in_", "out", "nsubscriptions", "nevents">>],   \* lines 740-756
     [name |-> "proc_exit",
      params |-> <<<<"rval", "u32">>>>,
      ret |-> "unit", resolves |-> <<>>,
      tail |-> "hostcall", call |-> <<"rval">>],   \* lines 758-761
     [name |-> "proc_raise",
      params |-> <<<<"sig", "__wasi_signal_t">>>>,
      ret |-> "__wasi_errno_t", resolves |-> <<>>,
      tail |-> "ENOSYS", call |-> <<>>],   \* lines 763-769
     [name |-> "random_get",
      params |-> <<<<"buf", "uintptr_t">>, <<"buf_len", "size_t">>>>,
      ret |-> "__wasi_errno_t", resolves |-> <<"memory">>,
      tail |-> "hostcall", call |-> <<"memory", "buf", "buf_len">>],   \* lines 771-779
     [name |-> "sched_yield",
      params |-> <<>>,
      ret |-> "__wasi_errno_t", resolves |-> <<>>,
      tail |-> "hostcall", call |-> <<>>],   \* lines 781-784
     [name |-> "sock_recv",
      params |-> <<<<"sock", "__wasi_fd_t">>, <<"ri_data", "uintptr_t">>, <<"ri_data_len", "size_t">>, <<"ri_flags", "__wasi_riflags_t">>, <<"ro_datalen", "uintptr_t">>, <<"ro_flags", "uintptr_t">>>>,
      ret |-> "__wasi_errno_t", resolves |-> <<"wasi_ctx", "memory">>,
      tail |-> "hostcall", call |-> <<"wasi_ctx", "memory", "sock", "ri_data", "ri_data_len", "ri_flags", "ro_datalen", "ro_flags">>],   \* lines 786-813
     [name |-> "sock_send",
      params |-> <<<<"sock", "__wasi_fd_t">>, <<"si_data", "uintptr_t">>, <<"si_data_len", "size_t">>, <<"si_flags", "__wasi_siflags_t">>, <<"so_datalen", "uintptr_t">>>>,
      ret |-> "__wasi_errno_t", resolves |-> <<"wasi_ctx", "memory">>,
      tail |-> "hostcall", call |-> <<"wasi_ctx", "memory", "sock", "si_data", "si_data_len", "si_flags", "so_datalen">>],   \* lines 815-839
     [name |-> "sock_shutdown",
      params |-> <<<<"sock", "__wasi_fd_t">>, <<"how", "__wasi_sdflags_t">>>>,
      ret |-> "__wasi_errno_t", resolves |-> <<"wasi_ctx", "memory">>,
      tail |-> "hostcall", call |-> <<"wasi_ctx", "memory", "sock", "how">>]   \* lines 841-850
    >>

\* The names of the operations, and the descriptor of each.
Names == {SyscallTable[i].name : i \in 1..Len(SyscallTable)}

SyscallOf ==
    [op \in Names |->
        SyscallTable[CHOOSE i \in 1..Len(SyscallTable) :
                        SyscallTable[i].name = op]]

\* A mutant of Syscall: fd_prestat_get is wired to a host call like the
\* operations that are ready.
Syscall_prestat_wired(op) ==
    LET d == SyscallOf[op]
    IN IF op = "fd_prestat_get"
       THEN [d EXCEPT !.resolves = <<"wasi_ctx", "memory">>,
                      !.tail = "hostcall",
                      !.call = <<"wasi_ctx", "memory", "fd", "buf">>]
       ELSE d

\* A mutant of Syscall: every body that ends in a host call resolves the
\* context and the memory first, whether the host call takes them or not.
Syscall_resolves_both(op) ==
    LET d == SyscallOf[op]
    IN IF d.tail = "hostcall"
       THEN [d EXCEPT !.resolves = <<"wasi_ctx", "memory">>]
       ELSE d

\* The descriptor of each operation.
Syscall(op) == SyscallOf[op]

\* The native type of parameter i of a descriptor, and of its result.
ParamTy(d, i) == wasm32(d.params[i][2])
RetTy(d) == wasm32(d.ret)

\* A mutant of params: every parameter is registered as one 32-bit word.
params_all_I32(op) ==
    [i \in 1..Len(Syscall(op).params) |-> "I32"]

\* syscalls::$name::params(): vec![$(<$ty as AbiParam>::codegen_ty()),*].
params(op) ==
    [i \in 1..Len(Syscall(op).params) |-> codegen_ty(ParamTy(Syscall(op), i))]

\* syscalls::$name::results(): <$ret as AbiRet>::codegen_tys().
results(op) == codegen_tys(RetTy(Syscall(op)))

\* The type of syscalls::$name::SHIM after the *mut VMContext: the Abi words
\* the shim takes, <$ty as AbiParam>::Abi each, and <$ret as AbiRet>::Abi,
\* which is () for the unit return.
SHIM(op) ==
    [name |-> op,
     args |-> [i \in 1..Len(Syscall(op).params) |->
                  AbiOf(ParamTy(Syscall(op), i))],
     ret  |-> IF RetTy(Syscall(op)) = "unit" THEN <<>>
              ELSE <<AbiOf(RetTy(Syscall(op)))>>]

(***************************************************************************)
(* The resolvers and ok_or_errno!.                                         *)
(***************************************************************************)
Ok(v) == [tag |-> "Ok", value |-> v]
Err(e) == [tag |-> "Err", value |-> e]

\* A mutant of get_wasi_ctx: whatever host state the instance carries is
\* handed out as the WasiCtx.
get_wasi_ctx_unchecked(h) == Ok("WasiCtx")

\* get_wasi_ctx: host_state().downcast_mut::<WasiCtx>() or __WASI_EINVAL.
get_wasi_ctx(h) ==
    IF h.host_state = "WasiCtx"
    THEN Ok("WasiCtx")
    ELSE Err(Bytes(WASI_EINVAL, 2))

\* A mutant of get_memory: the slice of the call before is kept and handed
\* out again.
get_memory_cached(h) ==
    IF h.memory_export.kind = "Memory"
    THEN IF earlier # <<>>
         THEN Ok(earlier[1])
         ELSE Ok([base |-> h.memory_export.base,
                  len  |-> h.memory_export.current_length])
    ELSE Err(Bytes(WASI_EINVAL, 2))

\* get_memory: the export "memory" when it is an Export::Memory, as the
\* slice from_raw_parts_mut((*definition).base, (*definition).current_length);
\* any other lookup result is __WASI_EINVAL.
get_memory(h) ==
    IF h.memory_export.kind = "Memory"
    THEN Ok([base |-> h.memory_export.base,
             len  |-> h.memory_export.current_length])
    ELSE Err(Bytes(WASI_EINVAL, 2))

\* A mutant of ok_or_errno: the Err arm does not return.
ok_or_errno_no_return(r) == [returns |-> FALSE, value |-> r.value]

\* ok_or_errno!($expr): Ok(v) is v, Err(e) makes the function return e.
ok_or_errno(r) ==
    IF r.tag = "Ok"
    THEN [returns |-> FALSE, value |-> r.value]
    ELSE [returns |-> TRUE, value |-> r.value]

\* The resolver behind each name of a descriptor's `resolves`.
Resolver(what, h) ==
    IF what = "wasi_ctx" THEN get_wasi_ctx(h) ELSE get_memory(h)

\* A mutant of RunResolves: every dependency is resolved before any result
\* is looked at, and the first failure is returned afterwards.
RECURSIVE RunResolves_eager(_, _, _)
RunResolves_eager(rs, h, acc) ==
    IF rs = <<>> THEN acc
    ELSE LET r == Resolver(Head(rs), h)
             o == ok_or_errno(r)
             step == [what |-> Head(rs), tag |-> r.tag, value |-> r.value]
         IN RunResolves_eager(Tail(rs), h,
               IF o.returns
               THEN [acc EXCEPT !.returned = TRUE,
                                !.errno = IF acc.returned THEN @ ELSE o.value,
                                !.steps = Append(@, step)]
               ELSE [acc EXCEPT !.env = Append(@, <<Head(rs), o.value>>),
                                !.steps = Append(@, step)])

\* The lets of a body, in order: each binds its name, or returns the errno.
\* acc = [returned, errno, env, steps].
RECURSIVE RunResolves(_, _, _)
RunResolves(rs, h, acc) ==
    IF rs = <<>> THEN acc
    ELSE LET r == Resolver(Head(rs), h)
             o == ok_or_errno(r)
             step == [what |-> Head(rs), tag |-> r.tag, value |-> r.value]
         IN IF o.returns
            THEN [acc EXCEPT !.returned = TRUE, !.errno = o.value,
                             !.steps = Append(@, step)]
            ELSE RunResolves(Tail(rs), h,
                     [acc EXCEPT !.env = Append(@, <<Head(rs), o.value>>),
                                 !.steps = Append(@, step)])

\* What a name of a body is bound to: a resolved dependency or a parameter.
Lookup(bindings, name) ==
    bindings[CHOOSE i \in 1..Len(bindings) : bindings[i][1] = name][2]

\* What a body bound a dependency to: <<v>>, or <<>> when it did not
\* resolve it.
Bound(env, name) ==
    IF \E i \in 1..Len(env) : env[i][1] = name
    THEN <<Lookup(env, name)>> ELSE <<>>

\* The host call a body ends in: the dependencies and the parameters its
\* argument list names, the parameters in the order of the list, and what
\* it returns.
hostcall(d, env, locals, nret) ==
    LET passed == SelectSeq(d.call, LAMBDA n : n \notin {"wasi_ctx", "memory"})
    IN [fn |-> d.name,
        wasi_ctx |-> IF \E i \in 1..Len(d.call) : d.call[i] = "wasi_ctx"
                     THEN Bound(env, "wasi_ctx") ELSE <<>>,
        memory |-> IF \E i \in 1..Len(d.call) : d.call[i] = "memory"
                   THEN Bound(env, "memory") ELSE <<>>,
        names |-> passed,
        args |-> [i \in 1..Len(passed) |-> Lookup(locals, passed[i])],
        returned |-> IF d.ret = "unit" THEN <<>> ELSE nret]

\* A mutant of fd_write_fd: no redirection.
fd_write_fd_identity(fd) == fd

\* fd_write: let fd = if fd == 2 { 1 } else { fd }.
fd_write_fd(fd) == IF fd = Bytes(2, 4) THEN Bytes(1, 4) ELSE fd

\* What a body does, in the order of its statements: the trace! of its
\* arguments, one resolution per step taken (with the trace! of the errno
\* when ok_or_errno! returns it), the host call when the tail is reached,
\* and the return to the shim, which hostcalls::proc_exit never reaches.
Events(d, steps, invoked) ==
    <<"trace">>
       \o [i \in 1..Len(steps) |-> steps[i].what]
       \o (IF steps # <<>> /\ steps[Len(steps)].tag = "Err"
           THEN <<"trace_errno">> ELSE <<>>)
       \o (IF invoked THEN <<"hostcall">> ELSE <<>>)
       \o (IF invoked /\ d.name = "proc_exit" THEN <<>> ELSE <<"return">>)

NoNative ==
    [fn |-> "none", wasi_ctx |-> <<>>, memory |-> <<>>, names |-> <<>>,
     args |-> <<>>, returned |-> <<>>]

\* A mutant of Body: the errno of the host call is folded into
\* "invalid argument" unless it is success.
Body_collapsing(op, h, args, nret) ==
    LET d == Syscall(op)
        acc == RunResolves(d.resolves, h,
                   [returned |-> FALSE, errno |-> <<>>, env |-> <<>>,
                    steps |-> <<>>])
        locals == [i \in 1..Len(d.params) |-> <<d.params[i][1], args[i]>>]
    IN IF d.tail = "ENOSYS" \/ acc.returned
       THEN [ret |-> IF acc.returned THEN acc.errno ELSE Bytes(WASI_ENOSYS, 2),
             steps |-> acc.steps, invoked |-> FALSE, native |-> NoNative,
             events |-> Events(d, acc.steps, FALSE),
             view |-> Bound(acc.env, "memory")]
       ELSE [ret |-> IF d.ret = "unit" THEN <<>>
                     ELSE IF nret = Bytes(0, 2) THEN nret
                     ELSE Bytes(WASI_EINVAL, 2),
             steps |-> acc.steps, invoked |-> TRUE,
             native |-> hostcall(d, acc.env, locals, nret),
             events |-> Events(d, acc.steps, TRUE),
             view |-> Bound(acc.env, "memory")]

\* The body of `pub unsafe extern "C" fn $name`: trace the arguments, (in
\* fd_write) rebind fd, resolve what the body resolves in its order, and end
\* in the tail expression. nret is what the host call returns.
Body(op, h, args, nret) ==
    LET d == Syscall(op)
        locals == [i \in 1..Len(d.params) |->
                     <<d.params[i][1],
                       IF op = "fd_write" /\ d.params[i][1] = "fd"
                       THEN fd_write_fd(args[i]) ELSE args[i]>>]
        acc == RunResolves(d.resolves, h,
                   [returned |-> FALSE, errno |-> <<>>, env |-> <<>>,
                    steps |-> <<>>])
    IN IF acc.returned
       THEN [ret |-> acc.errno, steps |-> acc.steps, invoked |-> FALSE,
             native |-> NoNative, events |-> Events(d, acc.steps, FALSE),
             view |-> Bound(acc.env, "memory")]
       ELSE IF d.tail = "ENOSYS"
       THEN [ret |-> Bytes(WASI_ENOSYS, 2), steps |-> acc.steps,
             invoked |-> FALSE, native |-> NoNative,
             events |-> Events(d, acc.steps, FALSE),
             view |-> Bound(acc.env, "memory")]
       ELSE [ret |-> IF d.ret = "unit" THEN <<>> ELSE nret,
             steps |-> acc.steps, invoked |-> TRUE,
             native |-> hostcall(d, acc.env, locals, nret),
             events |-> Events(d, acc.steps, TRUE),
             view |-> Bound(acc.env, "memory")]

\* syscalls::$name::shim: decode each Abi word into its parameter type, run
\* the body, encode what it returned.
shim(op, h, words, nret) ==
    LET d == Syscall(op)
        args == [i \in 1..Len(d.params) |->
                    AbiParam_convert(ParamTy(d, i), words[i])]
        r == Body(op, h, args, nret)
    IN [op |-> op, words |-> words, args |-> args, vmctx |-> h,
        steps |-> r.steps, invoked |-> r.invoked, native |-> r.native,
        events |-> r.events,
        ret |-> r.ret,
        view |-> r.view,
        results |-> IF d.ret = "unit" THEN <<>>
                    ELSE <<AbiRet_convert(RetTy(d), r.ret)>>]

(***************************************************************************)
(* SpecCall: a guest calls the trampolines of one instance and grows its   *)
(* memory between calls.                                                   *)
(***************************************************************************)
\* What vmctx.lookup_global_export("memory") finds: nothing, an export of
\* another kind, or a memory with its definition (current_length in pages).
NotMemory(kind) == [kind |-> kind, base |-> 0, current_length |-> 0]
Memory(base, pages) == [kind |-> "Memory", base |-> base, current_length |-> pages]

\* The handles a call may come with: with a WasiCtx as host state or with
\* host state of another type; with a freshly created one-page memory, with
\* a "memory" export that is a global, or with none.
Handles ==
    [host_state : {"WasiCtx", "Other"},
     memory_export : {NotMemory("None"), NotMemory("Global"), Memory(0, 1)}]

\* The guest words the calls are made with: 0, 2 and -1 in every position,
\* and the position's own index in each position.
Seeds == {Bytes(0, 4), Bytes(2, 4), <<255, 255, 255, 255>>}

Word(abiTy, seed) == IF abiTy = "i32" THEN seed ELSE seed \o seed

ArgVectors(op) ==
    { [i \in 1..Len(SHIM(op).args) |-> Word(SHIM(op).args[i], s)] : s \in Seeds }
    \cup { [i \in 1..Len(SHIM(op).args) |-> Bytes(i, Width(SHIM(op).args[i]))] }

\* What a host call may return: success, EBADF, and the two signals the
\* bridge itself produces, and the largest u16.
NativeReturns ==
    {Bytes(0, 2), Bytes(8, 2), Bytes(WASI_EINVAL, 2), Bytes(WASI_ENOSYS, 2),
     <<255, 255>>}

NoCall == [op |-> "none"]

InitCall ==
    /\ vmctx \in Handles
    /\ call = NoCall
    /\ earlier = <<>>
    /\ exited = FALSE
    /\ abi = NoAbi
    /\ inst = [pc |-> "idle"]
    /\ world = [pointer_type |-> "I64", runs |-> 0, fds |-> {}, instances |-> <<>>]

\* The operations whose body ends in a host call return what it returns;
\* the others never look at it.
NativeReturnsOf(op) ==
    IF Syscall(op).tail = "hostcall" THEN NativeReturns ELSE {Bytes(0, 2)}

\* One guest call of operation op, from the Abi words to the Abi result.
\* Calls into one instance are sequential. hostcalls::proc_exit ends the
\* process.
Call(op) ==
    /\ ~exited
    /\ call = NoCall
    /\ \E words \in ArgVectors(op) : \E nret \in NativeReturnsOf(op) :
          call' = shim(op, vmctx, words, nret)
    /\ exited' = (op = "proc_exit")
    /\ UNCHANGED <<abi, vmctx, earlier, inst, world>>

\* The guest takes the result and runs on; the slice of the call is kept
\* only as history.
Return ==
    /\ ~exited
    /\ call # NoCall
    /\ call' = NoCall
    /\ earlier' = IF call.view # <<>> THEN call.view ELSE earlier
    /\ UNCHANGED <<abi, vmctx, exited, inst, world>>

\* Between two calls the guest grows its memory by a page; the runtime may
\* move the memory when it does.
MemoryGrow ==
    /\ ~exited
    /\ call = NoCall
    /\ vmctx.memory_export.kind = "Memory"
    /\ vmctx.memory_export.current_length < MaxPages
    /\ \E base \in {vmctx.memory_export.base, vmctx.memory_export.base + 1} :
          vmctx' = [vmctx EXCEPT !.memory_export =
                       Memory(base, vmctx.memory_export.current_length + 1)]
    /\ UNCHANGED <<abi, call, earlier, exited, inst, world>>

NextCall == (\E op \in Names : Call(op)) \/ Return \/ MemoryGrow

SpecCall == InitCall /\ [][NextCall]_vars

(***************************************************************************)
(* instantiate_wasi (src/src/instantiate.rs).                              *)
(***************************************************************************)
\* The signature!(..) invocations of instantiate_wasi, in their order.
Registrations == <<
    "args_get", "args_sizes_get", "environ_get", "environ_sizes_get",
    "fd_allocate",
    "clock_res_get", "clock_time_get", "fd_close", "fd_read", "fd_renumber",
    "fd_sync", "fd_write", "poll_oneoff", "proc_exit", "random_get",
    "sched_yield", "sock_recv", "sock_send", "sock_shutdown",
    "fd_prestat_get", "fd_prestat_dir_name", "fd_datasync", "fd_pread",
    "fd_pwrite", "fd_seek", "fd_tell", "fd_fdstat_get",
    "fd_fdstat_set_flags", "fd_fdstat_set_rights", "fd_advise",
    "path_create_directory", "path_link", "path_open", "fd_readdir",
    "path_readlink", "path_rename", "fd_filestat_get",
    "fd_filestat_set_times", "fd_filestat_set_size", "path_filestat_get",
    "path_filestat_set_times", "path_symlink", "path_unlink_file",
    "path_remove_directory",
    "proc_raise"
    >>

\* translate_signature(ir::Signature { params, returns, call_conv },
\* pointer_type): the signature with the vmctx pointer put in front.
translate_signature(sig, pointer_type) ==
    [params |-> <<pointer_type>> \o sig.params, returns |-> sig.returns]

\* A mutant of ExportName: the export is named after the operation alone.
ExportName_no_prefix(prefix, name) == name

\* prefix.to_owned() + stringify!($name).
ExportName(prefix, name) == prefix \o name

\* module.exports.insert(key, value): a map keeps one entry per key.
Insert(exports, key, value) ==
    {e \in exports : e[1] # key} \cup {<<key, value>>}

\* A mutant of signature: the export is given the length of the function
\* table after the push, which as an index is the entry after the
\* function's own.
signature_export_off_by_one(l, name) ==
    LET sig == Len(l.signatures) + 1
        func == Len(l.functions) + 1
    IN [l EXCEPT
          !.signatures = Append(@, translate_signature(
                             [params |-> params(name), returns |-> results(name)],
                             l.pointer_type)),
          !.functions = Append(@, sig),
          !.exports = Insert(@, ExportName(l.prefix, name), func + 1),
          !.finished_functions = Append(@, SHIM(name).name)]

\* The four statements of signature!($name) on the locals.
signature(l, name) ==
    LET sig == Len(l.signatures) + 1
        func == Len(l.functions) + 1
    IN [l EXCEPT
          !.signatures = Append(@, translate_signature(
                             [params |-> params(name), returns |-> results(name)],
                             l.pointer_type)),
          !.functions = Append(@, sig),
          !.exports = Insert(@, ExportName(l.prefix, name), func),
          !.finished_functions = Append(@, SHIM(name).name)]

\* A mutant of map_err_try: the error is dropped and the run goes on.
map_err_try_ignored(r, msg) == [returns |-> FALSE, value |-> r.value]

\* expr.map_err(|err| InstantiationError::Resource(format!(msg, err)))?
map_err_try(r, msg) ==
    IF r.tag = "Ok"
    THEN [returns |-> FALSE, value |-> r.value]
    ELSE [returns |-> TRUE,
          value |-> Err([kind |-> "Resource", msg |-> msg \o r.value])]

\* What the callers give instantiate_wasi.
Prefixes == {"", "wasi_unstable_"}
Paths == {"/", "/tmp"}
DirLists == UNION {[1..n -> Paths] : n \in 0..MaxDirs}

NoInst ==
    [pc |-> "idle", next |-> 0, prefix |-> "", pointer_type |-> "I64",
     dirs |-> <<>>,
     signatures |-> <<>>, functions |-> <<>>, exports |-> {},
     finished_functions |-> <<>>, builder |-> <<>>, wasi_ctx |-> <<>>,
     new_called |-> FALSE, faults |-> {}, result |-> <<>>]

\* The global export table the caller supplies already maps the guest's
\* own exports; an entry is <<name, <<instance>>>>, or <<name, <<>>>> for a
\* name two instances export (None). Instance 0 is the guest.
CallerExports == {<<"memory", <<0>>>>, <<"_start", <<0>>>>}

\* What outlives a run: the pointer type of the host, the number of runs
\* begun, the open duplicates, the caller's global export table, and the
\* instances created, each with the run that built its module definition
\* and its WasiCtx and with the duplicates its WasiCtx owns.
NoWorld ==
    [pointer_type |-> "I64", runs |-> 0, fds |-> {}, closes |-> 0,
     global_exports |-> CallerExports, instances |-> <<>>]

InitInst ==
    /\ inst = NoInst
    /\ \E pt \in {"I32", "I64"} : world = [NoWorld EXCEPT !.pointer_type = pt]
    /\ abi = NoAbi
    /\ vmctx = [host_state |-> "None"]
    /\ call = NoCall
    /\ earlier = <<>>
    /\ exited = FALSE

\* The least descriptor number that is not open.
FreshFd(fds) == CHOOSE n \in 1..(Cardinality(fds) + 1) :
                   n \notin fds /\ \A m \in 1..(n - 1) : m \in fds

\* Entry: lines 23-27. The caller holds one open File per pre-opened
\* directory; pointer_type is that of the host. (The host makes its
\* instances before it lets a guest run, so no run begins after a close.)
Start ==
    /\ inst.pc \in {"idle", "done"}
    /\ world.runs < MaxRuns
    /\ world.closes = 0
    /\ \E prefix \in Prefixes, dirs \in DirLists :
          inst' = [NoInst EXCEPT !.pc = "signature", !.next = 1,
                                 !.prefix = prefix,
                                 !.pointer_type = world.pointer_type,
                                 !.dirs = dirs]
    /\ world' = [world EXCEPT !.runs = @ + 1]
    /\ UNCHANGED <<abi, vmctx, call, earlier, exited>>

\* One signature!(..) line.
Register ==
    /\ inst.pc = "signature"
    /\ inst.next <= Len(Registrations)
    /\ inst' = [signature(inst, Registrations[inst.next]) EXCEPT !.next = @ + 1]
    /\ UNCHANGED <<abi, vmctx, call, earlier, exited, world>>

\* The run returns r. (Its locals stay readable in the model until the
\* next run begins.)
Returned(l, r) == [l EXCEPT !.pc = "done", !.result = r]

\* The failure of a collaborator, noted when it happens.
Noted(l, r) ==
    IF r.tag = "Err" THEN [l EXCEPT !.faults = @ \cup {r.value}] ELSE l

\* The duplicates a builder holds; they are closed when it is dropped.
Dups(builder) == {builder[i][1] : i \in 1..Len(builder)}

\* Lines 119-129: WasiCtxBuilder::new() and the inherit_stdio/args/envs
\* chain, which the library may fail.
BuilderNew ==
    /\ inst.pc = "signature"
    /\ inst.next > Len(Registrations)
    /\ \E r \in {Ok(<<>>), Err("builder")} :
          LET t == map_err_try(r, "couldn't assemble WASI context object: ")
          IN IF t.returns
             THEN inst' = Returned(Noted(inst, r), t.value)
             ELSE inst' = [Noted(inst, r) EXCEPT !.pc = "preopen",
                                                 !.next = 1,
                                                 !.builder = <<>>]
    /\ UNCHANGED <<abi, vmctx, call, earlier, exited, world>>

\* A mutant of try_clone: a directory that was duplicated before in this
\* run is not duplicated again, the pair gets the duplicate made for the
\* earlier pair of the same path.
try_clone_once_per_path(l, w) ==
    LET same == {k \in 1..Len(l.builder) : l.builder[k][2] = l.dirs[l.next]}
    IN IF same = {} THEN FreshFd(w.fds)
       ELSE l.builder[CHOOSE k \in same : TRUE][1]

\* f.try_clone() when the system grants it: a new descriptor for the File
\* of the pair at hand, whatever the pairs before it were.
try_clone(l, w) == FreshFd(w.fds)

\* One turn of the loop of lines 131-141: f.try_clone(), which the system
\* may fail, and preopened_dir(duplicate, dir).
Preopen ==
    /\ inst.pc = "preopen"
    /\ inst.next <= Len(inst.dirs)
    /\ \E r \in {Ok(try_clone(inst, world)), Err("try_clone")} :
          LET t == map_err_try(r,
                     "couldn't clone an instance handle to pre-opened dir: ")
          IN IF t.returns
             THEN /\ inst' = Returned(Noted(inst, r), t.value)
                  /\ world' = [world EXCEPT !.fds = @ \ Dups(inst.builder)]
             ELSE /\ inst' = [Noted(inst, r) EXCEPT
                        !.next = @ + 1,
                        !.builder = Append(@, <<t.value, inst.dirs[inst.next]>>)]
                  /\ world' = [world EXCEPT !.fds = @ \cup
                        (IF r.tag = "Ok" THEN {t.value} ELSE {})]
    /\ UNCHANGED <<abi, vmctx, call, earlier, exited>>

\* Lines 143-145: wasi_ctx_builder.build(), which the library may fail.
Build ==
    /\ inst.pc = "preopen"
    /\ inst.next > Len(inst.dirs)
    /\ \E r \in {Ok([argv |-> "argv", environ |-> "environ",
                    preopens |-> inst.builder]), Err("build")} :
          LET t == map_err_try(r, "couldn't assemble WASI context object: ")
          IN IF t.returns
             THEN /\ inst' = Returned(Noted(inst, r), t.value)
                  /\ world' = [world EXCEPT !.fds = @ \ Dups(inst.builder)]
             ELSE /\ inst' = [Noted(inst, r) EXCEPT !.pc = "new",
                                                    !.wasi_ctx = <<t.value>>]
                  /\ UNCHANGED world
    /\ UNCHANGED <<abi, vmctx, call, earlier, exited>>

\* The global export table once the instance handle `id` has published the
\* exports of its module: a vacant name maps to the instance, a name already
\* in the table becomes ambiguous.
Publish(global_exports, exports, id) ==
    LET taken == {g[1] : g \in global_exports}
        names == {e[1] : e \in exports}
    IN {g \in global_exports : g[1] \notin names}
          \cup {<<n, <<>>>> : n \in names \cap taken}
          \cup {<<n, <<id>>>> : n \in names \ taken}

\* A mutant of InstanceHandle_new: the module definition is built once and
\* every later call hands the first one to the instance.
InstanceHandle_new_cached_module(l, w) ==
    [module |-> 1, host_state |-> w.runs, dups |-> Dups(l.builder)]

\* The instance InstanceHandle::new makes of this run's locals:
\* Rc::new(module) is the module definition built by this run and
\* Box::new(wasi_ctx) the context built by this run, with its duplicates.
InstanceHandle_new(l, w) ==
    [module |-> w.runs, host_state |-> w.runs, dups |-> Dups(l.builder)]

\* Lines 147-156: InstanceHandle::new(module, global_exports,
\* finished_functions, .., Box::new(wasi_ctx)); its result is the result of
\* instantiate_wasi. The collaborator may fail, which it does before it
\* publishes anything; the context goes with it.
New ==
    /\ inst.pc = "new"
    /\ \E ok \in BOOLEAN :
          IF ok
          THEN /\ inst' = [Returned(inst, Ok(Len(world.instances) + 1))
                              EXCEPT !.new_called = TRUE]
               /\ world' = [world EXCEPT
                     !.instances = Append(@, InstanceHandle_new(inst, world)),
                     !.global_exports = Publish(@, inst.exports,
                                                Len(world.instances) + 1)]
          ELSE /\ inst' = [Returned(inst, Err([kind |-> "Link",
                              msg |-> "InstanceHandle::new"]))
                              EXCEPT !.new_called = TRUE,
                                     !.faults = @ \cup {"new"}]
               /\ world' = [world EXCEPT !.fds = @ \ Dups(inst.builder)]
    /\ UNCHANGED <<abi, vmctx, call, earlier, exited>>

NextInst == Start \/ Register \/ BuilderNew \/ Preopen \/ Build \/ New

SpecInst == InitInst /\ [][NextInst]_vars

\* The guest of instance i closes one of the pre-opened duplicates of its
\* WasiCtx: fd_close resolves the context of the calling instance and
\* hostcalls::fd_close closes that one descriptor of it.
CloseDup ==
    /\ world.closes < MaxCloses
    /\ inst.pc = "done"
    /\ \E i \in 1..Len(world.instances) :
          \E fd \in world.instances[i].dups :
             world' = [world EXCEPT !.closes = @ + 1,
                                    !.fds = @ \ {fd},
                                    !.instances[i].dups = @ \ {fd}]
    /\ UNCHANGED <<abi, vmctx, call, earlier, exited, inst>>

NextDups == NextInst \/ CloseDup

\* Runs of instantiate_wasi with guests that close pre-opened duplicates.
SpecDups == InitInst /\ [][NextDups]_vars

(***************************************************************************)
(* Claims about the trampolines (SpecCall).                                *)
(***************************************************************************)
Served == call.op # "none"

\* Whether the descriptor's body resolves the dependency.
Resolves(d, what) == \E i \in 1..Len(d.resolves) : d.resolves[i] = what

\* Whether a resolution the operation requires fails on handle h.
RequiredFails(d, h) ==
    \E i \in 1..Len(d.resolves) : Resolver(d.resolves[i], h).tag = "Err"

\* C3: in a trampoline that requires the context or the memory, a call in
\* which a required resolution fails returns EINVAL to the guest without
\* invoking the native operation; the native operation is invoked only in
\* calls in which every required resolution succeeded.
C3_ShortCircuit ==
    Served =>
        LET d == Syscall(call.op)
        IN /\ RequiredFails(d, call.vmctx) =>
                 /\ ~call.invoked
                 /\ call.native = NoNative
                 /\ call.ret = Bytes(WASI_EINVAL, 2)
                 /\ call.results = <<Bytes(WASI_EINVAL, 4)>>
           /\ call.invoked =>
                 /\ ~RequiredFails(d, call.vmctx)
                 /\ Len(call.steps) = Len(d.resolves)
                 /\ \A i \in 1..Len(call.steps) : call.steps[i].tag = "Ok"

\* Witness of C3: fd_read on a handle with a WasiCtx and no memory export:
\* the second resolution fails, EINVAL comes back, no host call was made.
C3_Witness ==
    /\ Served
    /\ call.op = "fd_read"
    /\ call.vmctx.host_state = "WasiCtx"
    /\ call.vmctx.memory_export.kind = "None"
    /\ Len(call.steps) = 2
    /\ call.results = <<Bytes(WASI_EINVAL, 4)>>
    /\ ~call.invoked

\* C4: get_wasi_ctx fails exactly when the handle carries no WasiCtx host
\* state, get_memory exactly when the export "memory" is missing or is not
\* a memory; a failure is EINVAL and a success binds the dependency; there
\* is no third outcome.
C4_Resolvers ==
    Served =>
        \A i \in 1..Len(call.steps) :
            LET st == call.steps[i]
            IN /\ st.tag \in {"Ok", "Err"}
               /\ st.what = "wasi_ctx" =>
                     (st.tag = "Err" <=> call.vmctx.host_state # "WasiCtx")
               /\ st.what = "memory" =>
                     (st.tag = "Err" <=>
                         call.vmctx.memory_export.kind # "Memory")
               /\ st.tag = "Err" =>
                     /\ st.value = Bytes(WASI_EINVAL, 2)
                     /\ call.ret = Bytes(WASI_EINVAL, 2)

\* Witness of C4: one call in which get_wasi_ctx succeeded and get_memory
\* failed on an export "memory" that is a global.
C4_Witness ==
    /\ Served
    /\ Len(call.steps) = 2
    /\ call.steps[1].what = "wasi_ctx" /\ call.steps[1].tag = "Ok"
    /\ call.steps[2].what = "memory" /\ call.steps[2].tag = "Err"
    /\ call.vmctx.memory_export.kind = "Global"

\* C5: the descriptor hostcalls::fd_write sees is 1 when the guest passed
\* 2 and the guest's descriptor otherwise; iovs, iovs_len and nwritten
\* reach it as the guest passed them.
C5_FdWriteRedirect ==
    (Served /\ call.op = "fd_write" /\ call.invoked) =>
        /\ call.native.names = <<"fd", "iovs", "iovs_len", "nwritten">>
        /\ call.native.args[1] =
              IF call.words[1] = <<2, 0, 0, 0>> THEN <<1, 0, 0, 0>>
              ELSE call.words[1]
        /\ \A i \in 2..4 : call.native.args[i] = call.words[i]

\* Witness of C5: a write to descriptor 2 reached the host call as a write
\* to descriptor 1, the other arguments still 2.
C5_Witness ==
    /\ Served
    /\ call.op = "fd_write"
    /\ call.invoked
    /\ call.words = <<Bytes(2, 4), Bytes(2, 4), Bytes(2, 4), Bytes(2, 4)>>
    /\ call.native.args = <<Bytes(1, 4), Bytes(2, 4), Bytes(2, 4), Bytes(2, 4)>>

\* The operations the specification lists as having no native
\* implementation wired.
Unwired ==
    {"fd_prestat_get", "fd_prestat_dir_name", "fd_datasync", "fd_pread",
     "fd_pwrite", "fd_seek", "fd_tell", "fd_fdstat_get",
     "fd_fdstat_set_flags", "fd_fdstat_set_rights", "fd_advise",
     "fd_readdir", "fd_filestat_get", "fd_filestat_set_times",
     "fd_filestat_set_size", "path_create_directory", "path_link",
     "path_open", "path_readlink", "path_rename", "path_filestat_get",
     "path_filestat_set_times", "path_symlink", "path_unlink_file",
     "path_remove_directory", "proc_raise"}

\* C6: every operation without a wired native implementation returns ENOSYS
\* whatever its arguments are, resolves neither the context nor the memory
\* and makes no host call, also on a handle without WasiCtx and without a
\* memory export.
C6_Unwired ==
    (Served /\ call.op \in Unwired) =>
        /\ call.ret = Bytes(WASI_ENOSYS, 2)
        /\ call.results = <<Bytes(WASI_ENOSYS, 4)>>
        /\ call.steps = <<>>
        /\ ~call.invoked

\* Witness of C6: path_open with every pointer and count at its maximum on
\* a handle with no WasiCtx and no memory export returned ENOSYS.
C6_Witness ==
    /\ Served
    /\ call.op = "path_open"
    /\ call.words[3] = <<255, 255, 255, 255>>
    /\ call.vmctx.host_state = "Other"
    /\ call.vmctx.memory_export.kind = "None"
    /\ call.results = <<Bytes(WASI_ENOSYS, 4)>>

\* C7: when every required resolution of a wired operation succeeds, the
\* guest receives what the host call returned: the same errno value, zero
\* extended to the 32-bit result word, never another signal.
C7_ReturnUnchanged ==
    (Served /\ call.invoked /\ Syscall(call.op).ret # "unit") =>
        /\ call.ret = call.native.returned
        /\ Len(call.results) = 1
        /\ call.results[1] = call.native.returned \o <<0, 0>>
        /\ Unsigned(SubSeq(call.results[1], 1, 2)) = Unsigned(call.native.returned)

\* Witness of C7: hostcalls::fd_close returned EBADF (8) and the guest
\* received the word 8.
C7_Witness ==
    /\ Served
    /\ call.op = "fd_close"
    /\ call.invoked
    /\ call.native.returned = <<8, 0>>
    /\ call.results = <<<<8, 0, 0, 0>>>>

\* C10: the slice a call resolves spans the base and the length the memory
\* has at that call, whatever an earlier call resolved and however the
\* memory was resized in between, and it is the slice the host call gets.
C10_FreshView ==
    (Served /\ call.view # <<>>) =>
        /\ call.view = <<[base |-> call.vmctx.memory_export.base,
                          len  |-> call.vmctx.memory_export.current_length]>>
        /\ (call.invoked /\ Resolves(Syscall(call.op), "memory")) =>
               call.native.memory = call.view

\* Witness of C10: a call before the resize used the slice (base 0, one
\* page); after the memory grew and moved, fd_read used (base 1, two pages).
C10_Witness ==
    /\ Served
    /\ call.op = "fd_read"
    /\ call.invoked
    /\ earlier = <<[base |-> 0, len |-> 1]>>
    /\ call.native.memory = <<[base |-> 1, len |-> 2]>>

(***************************************************************************)
(* Claims about instantiate_wasi (SpecInst).                               *)
(***************************************************************************)
\* Every signature!(..) line of the running instantiate_wasi has been
\* executed.
Assembled ==
    \/ inst.pc \in {"preopen", "new", "done"}
    \/ inst.pc = "signature" /\ inst.next > Len(Registrations)

\* The bits of a codegen type, and of an Abi word type.
TypeBits(t) == IF t = "I32" THEN 32 ELSE 64
AbiBits(a) == 8 * Width(a)

\* The type of every operation's SHIM.
ShimTypes == [op \in Names |-> SHIM(op)]

\* C2: the signature registered for an operation, params() followed by
\* results() behind the vmctx pointer, has the word count and, in order,
\* the word widths of the Abi arguments its shim takes and of the Abi value
\* it returns; once assembled this is so for each of the 45 operations.
C2_SignatureMatchesShim ==
    /\ \A k \in 1..Len(inst.finished_functions) :
          LET sig == inst.signatures[inst.functions[k]]
              sh  == ShimTypes[inst.finished_functions[k]]
          IN /\ Len(sig.params) = 1 + Len(sh.args)
             /\ sig.params[1] = inst.pointer_type
             /\ \A j \in 1..Len(sh.args) :
                   TypeBits(sig.params[j + 1]) = AbiBits(sh.args[j])
             /\ Len(sig.returns) = Len(sh.ret)
             /\ \A j \in 1..Len(sh.ret) :
                   TypeBits(sig.returns[j]) = AbiBits(sh.ret[j])
    /\ Assembled =>
          /\ Cardinality(Names) = 45
          /\ {inst.finished_functions[k] :
                 k \in 1..Len(inst.finished_functions)} = Names

\* Witness of C2: the assembled module holds fd_pread's signature with its
\* 64-bit offset in fourth place, and proc_exit's without a result.
C2_Witness ==
    /\ Assembled
    /\ inst.finished_functions[23] = "fd_pread"
    /\ inst.signatures[inst.functions[23]] =
          [params |-> <<inst.pointer_type, "I32", "I32", "I32", "I64", "I32">>,
           returns |-> <<"I32">>]
    /\ inst.finished_functions[14] = "proc_exit"
    /\ inst.signatures[inst.functions[14]].returns = <<>>

\* C8: once instantiate_wasi has assembled the module, every operation of
\* the syscall table has exactly one export, named prefix + name, bound to
\* a function of its own, and exactly one trampoline address; nothing else
\* is exported, and the unwired operations are exported like the others.
\* (The export names are the 45 names prefix + name and there are 45
\* exports, so each name is exported once; likewise the trampolines.)
C8_OneExportEach ==
    Assembled =>
        /\ {e[1] : e \in inst.exports} = {inst.prefix \o op : op \in Names}
        /\ Cardinality(inst.exports) = Cardinality(Names)
        /\ Cardinality({e[2] : e \in inst.exports}) = Cardinality(Names)
        /\ {inst.finished_functions[k] :
               k \in 1..Len(inst.finished_functions)} = Names
        /\ Len(inst.finished_functions) = Cardinality(Names)
        /\ Unwired \subseteq Names

\* Witness of C8: under the prefix "wasi_unstable_" the assembled module
\* exports the unwired proc_raise as its 45th function.
C8_Witness ==
    /\ Assembled
    /\ inst.prefix = "wasi_unstable_"
    /\ <<"wasi_unstable_proc_raise", 45>> \in inst.exports
    /\ inst.finished_functions[45] = "proc_raise"

\* C9: when the builder chain, a try_clone or build() fails, the run has
\* returned a Resource error at that statement and InstanceHandle::new was
\* not called in it.
C9_ContextFailureAborts ==
    (inst.faults \cap {"builder", "try_clone", "build"} # {}) =>
        /\ inst.pc = "done"
        /\ inst.result.tag = "Err"
        /\ inst.result.value.kind = "Resource"
        /\ ~inst.new_called
        /\ inst.wasi_ctx = <<>>

\* Witness of C9: the first directory was duplicated, the second try_clone
\* failed, and the run ended in the Resource error of the loop.
C9_Witness ==
    /\ inst.pc = "done"
    /\ inst.faults = {"try_clone"}
    /\ Len(inst.builder) = 1
    /\ inst.result = Err([kind |-> "Resource",
          msg |-> "couldn't clone an instance handle to pre-opened dir: try_clone"])
    /\ ~inst.new_called

\* C12: a step of instantiate_wasi changes the caller's global export table
\* or the instances only when it is the step that returns an instance, so a
\* call that fails, at whichever statement, leaves both as they were and
\* what it built stays in its locals; and no two instances have the same
\* module definition, the same Capability Context or a duplicate in common.
C12_FailureLeavesNothing ==
    /\ [][(world'.global_exports # world.global_exports
              \/ world'.instances # world.instances)
            => /\ inst.pc = "new"
               /\ inst'.pc = "done"
               /\ inst'.result = Ok(Len(world'.instances))]_vars
    /\ [](\A i \in 1..Len(world.instances) :
            \A j \in (i + 1)..Len(world.instances) :
               /\ world.instances[i].module # world.instances[j].module
               /\ world.instances[i].host_state # world.instances[j].host_state
               /\ world.instances[i].dups \cap world.instances[j].dups = {})

\* Witness of C12: after one instance was made and published, a second call
\* registered all its exports, duplicated a directory and then failed; the
\* table holds the first instance's exports and nothing of the second.
C12_Witness ==
    /\ inst.pc = "done"
    /\ inst.result.tag = "Err"
    /\ inst.prefix = ""
    /\ Cardinality(inst.exports) = Len(Registrations)
    /\ inst.builder # <<>>
    /\ Len(world.instances) = 1
    /\ <<"wasi_unstable_fd_write", <<1>>>> \in world.global_exports
    /\ \A g \in world.global_exports : g[2] \in {<<0>>, <<1>>}
    /\ Cardinality(world.global_exports)
          = Cardinality(CallerExports) + Len(Registrations)

\* C13: instantiate_wasi takes any list of pre-opened pairs, two pairs of
\* the same guest path included: once the loop is through, the builder
\* holds one duplicate per pair, in the order of the pairs and under the
\* path of each, and the duplicates are pairwise different descriptors;
\* every duplicate an instance holds is open, whichever other duplicates
\* were closed.
C13_DuplicatePaths ==
    /\ (inst.pc = "new" \/ (inst.pc = "done" /\ inst.result.tag = "Ok")) =>
          /\ Len(inst.builder) = Len(inst.dirs)
          /\ \A k \in 1..Len(inst.dirs) : inst.builder[k][2] = inst.dirs[k]
          /\ \A k \in 1..Len(inst.dirs) : \A m \in (k + 1)..Len(inst.dirs) :
                inst.builder[k][1] # inst.builder[m][1]
    /\ \A i \in 1..Len(world.instances) :
          world.instances[i].dups \subseteq world.fds

\* Witness of C13: an instance was made of two pairs that are both "/tmp";
\* its guest closed the first duplicate and the second is still open.
C13_Witness ==
    /\ inst.pc = "done"
    /\ inst.result = Ok(1)
    /\ inst.dirs = <<"/tmp", "/tmp">>
    /\ inst.builder = <<<<1, "/tmp">>, <<2, "/tmp">>>>
    /\ world.closes = 1
    /\ world.instances[1].dups = {2}
    /\ world.fds = {2}

\* The positions of an event in what a call did.
At(events, e) == {i \in 1..Len(events) : events[i] = e}

\* The operations whose body resolves the context and the memory.
NeedsBoth == {op \in Names : Len(SyscallOf[op].resolves) = 2}

\* C14: a call of a trampoline that needs the context and the memory first
\* traces its arguments, then resolves the context, then the memory, then
\* invokes the native operation, then returns; it tries the memory only
\* when the context was resolved, invokes the native operation only when
\* both were, and never invokes it twice.
C14_StepOrder ==
    (Served /\ call.op \in NeedsBoth) =>
        LET ev == call.events
            ctx == At(ev, "wasi_ctx")
            mem == At(ev, "memory")
            nat == At(ev, "hostcall")
        IN /\ ev[1] = "trace"
           /\ ev[Len(ev)] = "return"
           /\ ctx = {2}
           /\ mem \subseteq {3}
           /\ nat \subseteq {4}
           /\ mem # {} <=> call.vmctx.host_state = "WasiCtx"
           /\ nat # {} <=> (/\ call.vmctx.host_state = "WasiCtx"
                            /\ call.vmctx.memory_export.kind = "Memory")
           /\ nat # {} => Len(ev) = 5
           /\ call.invoked <=> nat # {}

\* Witness of C14: sock_recv on an instance that has neither its context
\* nor a memory export stopped at the context and never tried the memory.
C14_Witness ==
    /\ Served
    /\ call.op = "sock_recv"
    /\ call.vmctx.host_state = "Other"
    /\ call.vmctx.memory_export.kind # "Memory"
    /\ call.events = <<"trace", "wasi_ctx", "trace_errno", "return">>

\* C15: after any number of registration steps the function table and the
\* trampoline table have the same length, and the exports are exactly the
\* names prefix + name of the operations registered so far, each bound to
\* the index at which that operation's SHIM was stored: no export leads to
\* the trampoline of another operation.
C15_TablesAligned ==
    /\ Len(inst.functions) = Len(inst.finished_functions)
    /\ inst.pc # "idle" =>
          /\ Len(inst.finished_functions)
                = (IF inst.pc = "signature" THEN inst.next - 1
                   ELSE Len(Registrations))
          /\ \A k \in 1..Len(inst.finished_functions) :
                inst.finished_functions[k] = Registrations[k]
          /\ inst.exports =
                {<<inst.prefix \o inst.finished_functions[k], k>> :
                    k \in 1..Len(inst.finished_functions)}

\* Witness of C15: in the middle of the registrations, twenty operations
\* in, fd_prestat_get is exported under the prefix as function 20 and its
\* SHIM is the 20th trampoline.
C15_Witness ==
    /\ inst.pc = "signature"
    /\ inst.prefix = "wasi_unstable_"
    /\ Len(inst.functions) = 20
    /\ Len(inst.finished_functions) = 20
    /\ inst.finished_functions[20] = Registrations[20]
    /\ <<"wasi_unstable_" \o Registrations[20], 20>> \in inst.exports
    /\ Cardinality(inst.exports) = 20

\* The wired operations by what their host call takes.
MemoryOnly == {"clock_res_get", "clock_time_get", "poll_oneoff", "random_get"}
ContextOnly == {"fd_close", "fd_renumber", "fd_sync", "fd_allocate"}
Neither == {"sched_yield", "proc_exit"}

\* What the trampoline tried to resolve in the call.
Tried == {call.steps[i].what : i \in 1..Len(call.steps)}

\* C16: a wired trampoline resolves only what its host call takes. The
\* four memory-only operations invoke the native operation, handing it the
\* memory and no context, exactly when the instance exports a memory,
\* whatever its host state is; the four context-only ones invoke it,
\* handing it the context and no memory, exactly when the host state is the
\* context, whatever the instance exports; sched_yield and proc_exit
\* invoke it always and resolve nothing. None of them stops with "invalid
\* argument" over the dependency it does not use.
C16_OnlyNeededDependencies ==
    Served =>
        /\ call.op \in MemoryOnly =>
              /\ Tried = {"memory"}
              /\ call.invoked <=> call.vmctx.memory_export.kind = "Memory"
              /\ call.native.wasi_ctx = <<>>
              /\ call.invoked => call.native.memory # <<>>
        /\ call.op \in ContextOnly =>
              /\ Tried = {"wasi_ctx"}
              /\ call.invoked <=> call.vmctx.host_state = "WasiCtx"
              /\ call.native.memory = <<>>
              /\ call.invoked => call.native.wasi_ctx # <<>>
        /\ call.op \in Neither =>
              /\ Tried = {}
              /\ call.invoked
              /\ call.native.wasi_ctx = <<>>
              /\ call.native.memory = <<>>
        /\ (call.op \in MemoryOnly \cup ContextOnly \cup Neither
               /\ call.invoked) => call.ret = call.native.returned

\* Witness of C16: clock_res_get on an instance whose host state is not a
\* context but which exports a memory reached the native operation, and
\* returned its success.
C16_Witness ==
    /\ Served
    /\ call.op = "clock_res_get"
    /\ call.vmctx.host_state = "Other"
    /\ call.vmctx.memory_export.kind = "Memory"
    /\ call.invoked
    /\ call.native.fn = "clock_res_get"
    /\ call.native.memory # <<>>
    /\ call.ret = Bytes(0, 2)

=============================================================================
